---- MODULE Spec2Model ----
(***************************************************************************)
(* YoutubeMixDownloader (src/src/youtube_mix_dl/downloader.py) as a state  *)
(* machine: one call of download_mix, which calls get_mix_videos (the      *)
(* scroll-and-collect loop under try/finally) and then download_video for  *)
(* every scraped URL.  The browser, the page, the download service and the *)
(* progress sink are the environment: what they return, and whether they   *)
(* raise, is chosen nondeterministically.                                  *)
(***************************************************************************)
EXTENDS Integers, Sequences, FiniteSets, TLC

\* ---------------------------------------------------------------- bounds
MaxVid == 3        \* distinct video ids the page can show
MaxItems == 2      \* anchors one find_elements call returns at most
MaxRounds == 2     \* scroll rounds explored
MaxN == 2          \* largest num_videos explored
MaxHooks == 1      \* sub-progress hook calls per download explored

VARIABLES
    pc,                   \* position in download_mix / get_mix_videos / download_video
    progress_callback,    \* TRUE iff self.progress_callback is supplied
    num_videos,           \* the argument N
    driver,               \* "none" | "open" | "quit"
    quits,                \* number of driver.quit() calls
    exc,                  \* the exception in flight ("none" when there is none)
    video_urls,           \* get_mix_videos' local list
    items,                \* the part of `items` the for loop has not visited yet
    rounds,               \* scroll rounds started
    seen,                 \* observer: normalized watch URLs in first-seen order
    exposed,              \* observer: normalized watch URLs the page has returned
    fed_dup,              \* observer: the href the for loop in progress visited last
                          \* had extra parameters and a normalized form already seen
    log,                  \* notifications the progress sink accepted, in order
    got_list,             \* TRUE once get_mix_videos has returned a list
    mix_video_urls,       \* download_mix's local video_urls
    index,                \* enumerate() index of the item in progress (0 before the first)
    hooks,                \* progress-hook calls made for the item in progress
    fail,                 \* what download_video's `except Exception` caught ("none" if nothing)
    dir_exists,           \* os.path.exists(self.output_path)
    outcomes,             \* per attempted item: what the service did and what download_video returned
    attempted,            \* URLs handed to download_video, in order
    successful_downloads, \* download_mix's tally
    returned              \* download_mix's return value, -1 while it has not returned

vars == <<pc, progress_callback, num_videos, driver, quits, exc, video_urls, items,
          rounds, seen, exposed, fed_dup, log, got_list, mix_video_urls, index,
          hooks, fail, dir_exists, outcomes, attempted, successful_downloads, returned>>

\* ------------------------------------------------------------- data
\* An href attribute: absent (None), present without "watch?v=", or a watch
\* address of video v carrying `extra` further query parameters (0 = none).
NoHref == [present |-> FALSE, watch |-> FALSE, v |-> 0, extra |-> 0]
OtherHref == [present |-> TRUE, watch |-> FALSE, v |-> 0, extra |-> 0]
WatchHrefs == [present : {TRUE}, watch : {TRUE}, v : 1..MaxVid, extra : 0..1]
Hrefs == {NoHref, OtherHref} \cup WatchHrefs

SeqsUpTo(S, n) == UNION {[1..k -> S] : k \in 0..n}
Range(s) == {s[i] : i \in 1..Len(s)}
Min(a, b) == IF a < b THEN a ELSE b
IsPrefix(s, t) == Len(s) <= Len(t) /\ SubSeq(t, 1, Len(s)) = s

\* clean_youtube_url: keeps scheme, host, path and the v parameter only.
clean_youtube_url(href) == [href EXCEPT !.extra = 0]

\* `href and "watch?v=" in href`
IsWatch(href) == href.present /\ href.watch

\* variants of AppendIfNew: inserting at the head; appending without the test
AppendPrepend(urls, u) == IF u \in Range(urls) THEN urls ELSE <<u>> \o urls
AppendNoCheck(urls, u) == Append(urls, u)
\* `if clean_url not in video_urls: video_urls.append(clean_url)`
AppendIfNew(urls, u) == IF u \in Range(urls) THEN urls ELSE Append(urls, u)

\* list(dict.fromkeys(video_urls)): every key once, at its first position.
RECURSIVE DictFromKeys(_)
DictFromKeys(s) ==
    IF s = <<>> THEN <<>>
    ELSE LET r == DictFromKeys(SubSeq(s, 1, Len(s) - 1))
         IN  IF s[Len(s)] \in Range(r) THEN r ELSE Append(r, s[Len(s)])

\* variant of Slice: the whole list
SliceAll(urls, n) == urls
\* video_urls[:num_videos], num_videos > 0
Slice(urls, n) == SubSeq(urls, 1, Min(n, Len(urls)))

\* Notifications, by kind; a and b carry the numbers the text shows.
Msg(k, a, b) == [k |-> k, a |-> a, b |-> b]
\* `if self.progress_callback: self.progress_callback(m)`, the sink returning normally
Emit(m) == IF progress_callback THEN Append(log, m) ELSE log

RECURSIVE CountKind(_, _)
CountKind(s, K) ==
    IF s = <<>> THEN 0
    ELSE (IF Head(s).k \in K THEN 1 ELSE 0) + CountKind(Tail(s), K)

RECURSIVE CountOk(_)
CountOk(s) == IF s = <<>> THEN 0 ELSE (IF Head(s).ok THEN 1 ELSE 0) + CountOk(Tail(s))

\* ------------------------------------------------------------- Init
Init ==
    /\ pc = "start"
    /\ progress_callback \in BOOLEAN
    /\ num_videos \in 1..MaxN
    /\ driver = "none"
    /\ quits = 0
    /\ exc = "none"
    /\ video_urls = <<>>
    /\ items = <<>>
    /\ rounds = 0
    /\ seen = <<>>
    /\ exposed = {}
    /\ fed_dup = FALSE
    /\ log = <<>>
    /\ got_list = FALSE
    /\ mix_video_urls = <<>>
    /\ index = 0
    /\ hooks = 0
    /\ fail = "none"
    /\ dir_exists = FALSE
    /\ outcomes = <<>>
    /\ attempted = <<>>
    /\ successful_downloads = 0
    /\ returned = -1

scrapeVars == <<video_urls, items, rounds, seen, exposed, fed_dup>>
dlVars == <<mix_video_urls, index, hooks, fail, dir_exists, outcomes, attempted,
           successful_downloads, returned>>

\* ------------------------------------------------- download_mix, entry
\* download_mix: "Starting YouTube Mix downloader..."
Start ==
    /\ pc = "start"
    /\ log' = Emit(Msg("Starting", 0, 0))
    /\ pc' = "setup"
    /\ UNCHANGED <<progress_callback, num_videos, driver, quits, exc, got_list>>
    /\ UNCHANGED scrapeVars
    /\ UNCHANGED dlVars

\* the sink raises on the first notification: nothing catches it
StartSinkRaises ==
    /\ pc = "start"
    /\ progress_callback
    /\ exc' = "sink"
    /\ pc' = "raised"
    /\ UNCHANGED <<progress_callback, num_videos, driver, quits, log, got_list>>
    /\ UNCHANGED scrapeVars
    /\ UNCHANGED dlVars

\* ------------------------------------------------------ get_mix_videos
\* driver = self._setup_driver(); video_urls = []
SetupDriver ==
    /\ pc = "setup"
    /\ driver' = "open"
    /\ video_urls' = <<>>
    /\ pc' = "loading"
    /\ UNCHANGED <<progress_callback, num_videos, quits, exc, log, got_list>>
    /\ UNCHANGED <<items, rounds, seen, exposed, fed_dup>>
    /\ UNCHANGED dlVars

\* variant of SetupDriverRaises: driver.quit() is called all the same
SetupDriverQuits ==
    /\ pc = "setup"
    /\ exc' = "acquire"
    /\ quits' = quits + 1
    /\ pc' = "raised"
    /\ UNCHANGED <<progress_callback, num_videos, driver, log, got_list>>
    /\ UNCHANGED scrapeVars
    /\ UNCHANGED dlVars

\* _setup_driver raises: the call stands before the try, nothing is caught
SetupDriverRaises ==
    /\ pc = "setup"
    /\ exc' = "acquire"
    /\ pc' = "raised"
    /\ UNCHANGED <<progress_callback, num_videos, driver, quits, log, got_list>>
    /\ UNCHANGED scrapeVars
    /\ UNCHANGED dlVars

\* "Loading playlist page..."
Loading ==
    /\ pc = "loading"
    /\ log' = Emit(Msg("Loading", 0, 0))
    /\ pc' = "navigate"
    /\ UNCHANGED <<progress_callback, num_videos, driver, quits, exc, got_list>>
    /\ UNCHANGED scrapeVars
    /\ UNCHANGED dlVars

\* driver.get(mix_url); time.sleep(3)
Navigate ==
    /\ pc = "navigate"
    /\ pc' = "while"
    /\ UNCHANGED <<progress_callback, num_videos, driver, quits, exc, log, got_list>>
    /\ UNCHANGED scrapeVars
    /\ UNCHANGED dlVars

\* while len(video_urls) < num_videos
WhileTest ==
    /\ pc = "while"
    /\ IF Len(video_urls) < num_videos
       THEN rounds < MaxRounds /\ pc' = "scroll"
       ELSE pc' = "finally"
    /\ UNCHANGED <<progress_callback, num_videos, driver, quits, exc, log, got_list>>
    /\ UNCHANGED scrapeVars
    /\ UNCHANGED dlVars

\* driver.execute_script(scrollTo ...); time.sleep(2)
Scroll ==
    /\ pc = "scroll"
    /\ rounds' = rounds + 1
    /\ pc' = "query"
    /\ UNCHANGED <<progress_callback, num_videos, driver, quits, exc, log, got_list>>
    /\ UNCHANGED <<video_urls, items, seen, exposed, fed_dup>>
    /\ UNCHANGED dlVars

\* items = driver.find_elements(By.CSS_SELECTOR, ...): whatever the page shows now
FindElements ==
    /\ pc = "query"
    /\ \E its \in SeqsUpTo(Hrefs, MaxItems) :
          /\ items' = its
          /\ exposed' = exposed \cup
                {clean_youtube_url(its[i]) : i \in {j \in 1..Len(its) : IsWatch(its[j])}}
    /\ pc' = "for"
    /\ UNCHANGED <<progress_callback, num_videos, driver, quits, exc, log, got_list>>
    /\ UNCHANGED <<video_urls, rounds, seen, fed_dup>>
    /\ UNCHANGED dlVars

\* one iteration of `for item in items`
ForItem ==
    /\ pc = "for"
    /\ items # <<>>
    /\ LET href == Head(items)
           clean_url == clean_youtube_url(href)
       IN  /\ video_urls' = IF IsWatch(href) THEN AppendIfNew(video_urls, clean_url)
                                             ELSE video_urls
           /\ seen' = IF IsWatch(href) /\ clean_url \notin Range(seen)
                      THEN Append(seen, clean_url) ELSE seen
           /\ fed_dup' = (IsWatch(href) /\ href.extra > 0 /\ clean_url \in Range(seen))
    /\ items' = Tail(items)
    /\ UNCHANGED <<pc, progress_callback, num_videos, driver, quits, exc, log, got_list>>
    /\ UNCHANGED <<rounds, exposed>>
    /\ UNCHANGED dlVars

\* video_urls = list(dict.fromkeys(video_urls)), once the for loop is over
Rededup ==
    /\ pc = "for"
    /\ items = <<>>
    /\ video_urls' = DictFromKeys(video_urls)
    /\ pc' = "found"
    /\ UNCHANGED <<progress_callback, num_videos, driver, quits, exc, log, got_list>>
    /\ fed_dup' = FALSE
    /\ UNCHANGED <<items, rounds, seen, exposed>>
    /\ UNCHANGED dlVars

\* variant of Found: the round number in place of the count
FoundWrongCount ==
    /\ pc = "found"
    /\ log' = Emit(Msg("Found", rounds, 0))
    /\ pc' = "break"
    /\ UNCHANGED <<progress_callback, num_videos, driver, quits, exc, got_list>>
    /\ UNCHANGED scrapeVars
    /\ UNCHANGED dlVars

\* f"Found {len(video_urls)} videos..."
Found ==
    /\ pc = "found"
    /\ log' = Emit(Msg("Found", Len(video_urls), 0))
    /\ pc' = "break"
    /\ UNCHANGED <<progress_callback, num_videos, driver, quits, exc, got_list>>
    /\ UNCHANGED scrapeVars
    /\ UNCHANGED dlVars

\* variant of BreakTest: leaves the loop one URL early
BreakTestOffByOne ==
    /\ pc = "break"
    /\ pc' = IF Len(video_urls) >= num_videos - 1 THEN "finally" ELSE "while"
    /\ UNCHANGED <<progress_callback, num_videos, driver, quits, exc, log, got_list>>
    /\ UNCHANGED scrapeVars
    /\ UNCHANGED dlVars

\* if len(video_urls) >= num_videos: break
BreakTest ==
    /\ pc = "break"
    /\ pc' = IF Len(video_urls) >= num_videos THEN "finally" ELSE "while"
    /\ UNCHANGED <<progress_callback, num_videos, driver, quits, exc, log, got_list>>
    /\ UNCHANGED scrapeVars
    /\ UNCHANGED dlVars

\* variant of BrowserRaises: the exception leaves the call at once
BrowserRaisesNoFinally ==
    /\ \/ pc \in {"navigate", "scroll", "query"}
       \/ pc = "for" /\ items # <<>>
    /\ exc' = "browser"
    /\ pc' = "raised"
    /\ UNCHANGED <<progress_callback, num_videos, driver, quits, log, got_list>>
    /\ items' = <<>>
    /\ fed_dup' = FALSE
    /\ UNCHANGED <<video_urls, rounds, seen, exposed>>
    /\ UNCHANGED dlVars

\* driver.get, execute_script, find_elements, get_attribute or clean_youtube_url
\* raises inside the try: the loop is abandoned, control goes to the finally clause
BrowserRaises ==
    /\ \/ pc \in {"navigate", "scroll", "query"}
       \/ pc = "for" /\ items # <<>>
    /\ exc' = "browser"
    /\ pc' = "finally"
    /\ UNCHANGED <<progress_callback, num_videos, driver, quits, log, got_list>>
    /\ items' = <<>>
    /\ fed_dup' = FALSE
    /\ UNCHANGED <<video_urls, rounds, seen, exposed>>
    /\ UNCHANGED dlVars

\* the progress sink raises inside the try
ScrapeSinkRaises ==
    /\ pc \in {"loading", "found"}
    /\ progress_callback
    /\ exc' = "sink"
    /\ pc' = "finally"
    /\ UNCHANGED <<progress_callback, num_videos, driver, quits, log, got_list>>
    /\ UNCHANGED scrapeVars
    /\ UNCHANGED dlVars

\* finally: driver.quit(); then the pending exception propagates, or
\* return video_urls[:num_videos]
Finally ==
    /\ pc = "finally"
    /\ driver' = "quit"
    /\ quits' = quits + 1
    /\ IF exc # "none"
       THEN /\ pc' = "raised"
            /\ UNCHANGED <<got_list, mix_video_urls>>
       ELSE /\ pc' = "scraped"
            /\ got_list' = TRUE
            /\ mix_video_urls' = Slice(video_urls, num_videos)
    /\ UNCHANGED <<progress_callback, num_videos, exc, log>>
    /\ UNCHANGED scrapeVars
    /\ UNCHANGED <<index, hooks, fail, dir_exists, outcomes, attempted,
                   successful_downloads, returned>>

\* driver.quit() itself raises: that exception leaves the call
FinallyQuitRaises ==
    /\ pc = "finally"
    /\ driver' = "quit"
    /\ quits' = quits + 1
    /\ exc' = "quit"
    /\ pc' = "raised"
    /\ UNCHANGED <<progress_callback, num_videos, log, got_list>>
    /\ UNCHANGED scrapeVars
    /\ UNCHANGED dlVars

\* ---------------------------------------------- download_mix, the batch
\* variant of Tally: every item counts
TallyAlways(n, ok) == n + 1
\* `if self.download_video(video_url): successful_downloads += 1`
Tally(n, ok) == IF ok THEN n + 1 ELSE n

\* download_video returns `ok` after the service did `svc`; download_mix
\* tallies, sleeps (time.sleep(1)) and goes on to the next item
Return(svc, ok) ==
    /\ outcomes' = Append(outcomes, [svc |-> svc, ok |-> ok])
    /\ successful_downloads' = Tally(successful_downloads, ok)
    /\ fail' = "none"
    /\ pc' = "dl_for"

\* download_mix has the list: successful_downloads = 0.  get_mix_videos' locals
\* are gone, and the observers of the scrape are cleared with them.
BatchInit ==
    /\ pc = "scraped"
    /\ successful_downloads' = 0
    /\ video_urls' = <<>>
    /\ items' = <<>>
    /\ rounds' = 0
    /\ seen' = <<>>
    /\ exposed' = {}
    /\ fed_dup' = FALSE
    /\ pc' = "dl_for"
    /\ UNCHANGED <<progress_callback, num_videos, driver, quits, exc, log, got_list>>
    /\ UNCHANGED <<mix_video_urls, index, hooks, fail, dir_exists, outcomes, attempted,
                   returned>>

\* for index, video_url in enumerate(video_urls, 1): "[index/len] Processing video..."
ForNext ==
    /\ pc = "dl_for"
    /\ index < Len(mix_video_urls)
    /\ index' = index + 1
    /\ hooks' = 0
    /\ log' = Emit(Msg("Marker", index + 1, Len(mix_video_urls)))
    /\ pc' = "dl_video"
    /\ UNCHANGED <<progress_callback, num_videos, driver, quits, exc, got_list>>
    /\ UNCHANGED scrapeVars
    /\ UNCHANGED <<mix_video_urls, fail, dir_exists, outcomes, attempted,
                   successful_downloads, returned>>

\* download_video: os.path.exists / os.makedirs
MakeDirs ==
    /\ pc = "dl_video"
    /\ attempted' = Append(attempted, mix_video_urls[index])
    /\ dir_exists' = TRUE
    /\ pc' = "dl_extract"
    /\ UNCHANGED <<progress_callback, num_videos, driver, quits, exc, log, got_list>>
    /\ UNCHANGED scrapeVars
    /\ UNCHANGED <<mix_video_urls, index, hooks, fail, outcomes,
                   successful_downloads, returned>>

\* os.makedirs raises (inside the try)
MakeDirsRaises ==
    /\ pc = "dl_video"
    /\ ~dir_exists
    /\ attempted' = Append(attempted, mix_video_urls[index])
    /\ fail' = "oserror"
    /\ pc' = "dl_except"
    /\ UNCHANGED <<progress_callback, num_videos, driver, quits, exc, log, got_list>>
    /\ UNCHANGED scrapeVars
    /\ UNCHANGED <<mix_video_urls, index, hooks, dir_exists, outcomes,
                   successful_downloads, returned>>

\* progress_hooks: "Downloading: <percent> of <size>" while the service transfers
Hook ==
    /\ pc = "dl_extract"
    /\ progress_callback
    /\ hooks < MaxHooks
    /\ hooks' = hooks + 1
    /\ log' = Emit(Msg("Downloading", 0, 0))
    /\ UNCHANGED <<pc, progress_callback, num_videos, driver, quits, exc, got_list>>
    /\ UNCHANGED scrapeVars
    /\ UNCHANGED <<mix_video_urls, index, fail, dir_exists, outcomes, attempted,
                   successful_downloads, returned>>

\* info = ydl.extract_info(url, download=True): metadata
ExtractInfo ==
    /\ pc = "dl_extract"
    /\ pc' = "dl_info"
    /\ UNCHANGED <<progress_callback, num_videos, driver, quits, exc, log, got_list>>
    /\ UNCHANGED scrapeVars
    /\ UNCHANGED dlVars

\* extract_info returns None: `return False`, nothing is notified
ExtractInfoNone ==
    /\ pc = "dl_extract"
    /\ Return("none", FALSE)
    /\ UNCHANGED <<progress_callback, num_videos, driver, quits, exc, log, got_list>>
    /\ UNCHANGED scrapeVars
    /\ UNCHANGED <<mix_video_urls, index, hooks, dir_exists, attempted, returned>>

\* extract_info (or YoutubeDL itself) raises
ExtractInfoRaises ==
    /\ pc = "dl_extract"
    /\ fail' = "service"
    /\ pc' = "dl_except"
    /\ UNCHANGED <<progress_callback, num_videos, driver, quits, exc, log, got_list>>
    /\ UNCHANGED scrapeVars
    /\ UNCHANGED <<mix_video_urls, index, hooks, dir_exists, outcomes, attempted,
                   successful_downloads, returned>>

\* if info: "Successfully downloaded: <title>"; return True
Success ==
    /\ pc = "dl_info"
    /\ log' = Emit(Msg("Success", index, 0))
    /\ Return("info", TRUE)
    /\ UNCHANGED <<progress_callback, num_videos, driver, quits, exc, got_list>>
    /\ UNCHANGED scrapeVars
    /\ UNCHANGED <<mix_video_urls, index, hooks, dir_exists, attempted, returned>>

\* the sink raises on the success message: the except clause catches it
SuccessSinkRaises ==
    /\ pc = "dl_info"
    /\ progress_callback
    /\ fail' = "sink"
    /\ pc' = "dl_except"
    /\ UNCHANGED <<progress_callback, num_videos, driver, quits, exc, log, got_list>>
    /\ UNCHANGED scrapeVars
    /\ UNCHANGED <<mix_video_urls, index, hooks, dir_exists, outcomes, attempted,
                   successful_downloads, returned>>

\* variant of Except: the exception leaves download_video
ExceptPropagates ==
    /\ pc = "dl_except"
    /\ exc' = fail
    /\ pc' = "raised"
    /\ UNCHANGED <<progress_callback, num_videos, driver, quits, log, got_list>>
    /\ UNCHANGED scrapeVars
    /\ UNCHANGED dlVars

\* except Exception as e: "Error downloading video: <e>"; return False
Except ==
    /\ pc = "dl_except"
    /\ log' = Emit(Msg("Error", index, 0))
    /\ Return(IF fail = "sink" THEN "info" ELSE "error", FALSE)
    /\ UNCHANGED <<progress_callback, num_videos, driver, quits, exc, got_list>>
    /\ UNCHANGED scrapeVars
    /\ UNCHANGED <<mix_video_urls, index, hooks, dir_exists, attempted, returned>>

\* the sink raises inside the except clause, or on the index marker or the
\* summary: nothing in download_mix catches it
BatchSinkRaises ==
    /\ \/ pc = "dl_except"
       \/ pc = "dl_for"
    /\ progress_callback
    /\ exc' = "sink"
    /\ pc' = "raised"
    /\ UNCHANGED <<progress_callback, num_videos, driver, quits, log, got_list>>
    /\ UNCHANGED scrapeVars
    /\ UNCHANGED dlVars

\* "Download complete! Successfully downloaded <n> videos."; return successful_downloads
Summary ==
    /\ pc = "dl_for"
    /\ index = Len(mix_video_urls)
    /\ log' = Emit(Msg("Complete", successful_downloads, 0))
    /\ returned' = successful_downloads
    /\ pc' = "done"
    /\ UNCHANGED <<progress_callback, num_videos, driver, quits, exc, got_list>>
    /\ UNCHANGED scrapeVars
    /\ UNCHANGED <<mix_video_urls, index, hooks, fail, dir_exists, outcomes, attempted,
                   successful_downloads>>

\* ------------------------------------------------------ specifications
\* the steps of get_mix_videos, as download_mix calls it, when no collaborator raises
ScrapeNoFault ==
    \/ Start \/ SetupDriver \/ Loading \/ Navigate \/ WhileTest \/ Scroll
    \/ FindElements \/ ForItem \/ Rededup \/ Found \/ BreakTest \/ Finally

\* the steps of the batch when no collaborator raises
BatchNoFault ==
    \/ BatchInit \/ ForNext \/ MakeDirs \/ Hook \/ ExtractInfo \/ ExtractInfoNone
    \/ Success \/ Summary

Next ==
    \/ ScrapeNoFault
    \/ BatchNoFault
    \/ StartSinkRaises \/ SetupDriverRaises \/ BrowserRaises \/ ScrapeSinkRaises
    \/ FinallyQuitRaises \/ MakeDirsRaises \/ ExtractInfoRaises
    \/ SuccessSinkRaises \/ Except \/ BatchSinkRaises

Spec == Init /\ [][Next]_vars

\* The scrape alone, up to its return: no collaborator raises, and the
\* program, being sequential, keeps taking its next step.
LiveSpec == Init /\ [][ScrapeNoFault]_vars /\ WF_vars(ScrapeNoFault)

\* ------------------------------------------------------------- claims
InScrape == pc \in {"loading", "navigate", "while", "scroll", "query", "for",
                    "found", "break", "finally"}
InBatch == pc \in {"scraped", "dl_for", "dl_video", "dl_extract", "dl_info", "dl_except",
                   "done"}
NoDuplicates(s) ==
    \A i, j \in 1..Len(s) :
        i # j => clean_youtube_url(s[i]) # clean_youtube_url(s[j])
Founds == SelectSeq(log, LAMBDA m : m.k = "Found")

\* C1: whatever hrefs the rounds feed (repeated, or differing only in extra
\* query parameters), the list get_mix_videos builds never holds two elements
\* with the same normalized form, its elements stand in the order in which
\* their normalized form was first seen, and so does the list it returns.
C1_DedupFirstSeen ==
    /\ NoDuplicates(video_urls)
    /\ video_urls = seen
    /\ got_list => NoDuplicates(mix_video_urls)
    /\ pc = "scraped" => IsPrefix(mix_video_urls, seen)

C1_Witness ==
    /\ pc = "for"
    /\ items = <<>>
    /\ fed_dup
    /\ rounds >= 2
    /\ Len(video_urls) >= 2

\* C2: get_mix_videos (N > 0) never returns more than N URLs; when the
\* collected list holds M >= N URLs at loop exit, also when one round pushed it
\* past N, it returns exactly N: the first N in discovery order.
C2_Truncation ==
    /\ got_list => Len(mix_video_urls) <= num_videos
    /\ pc = "scraped" =>
        /\ mix_video_urls = SubSeq(seen, 1, Len(mix_video_urls))
        /\ Len(video_urls) >= num_videos =>
              /\ Len(mix_video_urls) = num_videos
              /\ \A i \in 1..num_videos : mix_video_urls[i] = seen[i]

C2_Witness ==
    /\ pc = "scraped"
    /\ Len(video_urls) > num_videos
    /\ Len(mix_video_urls) = num_videos

\* C3: once a browser session was acquired, driver.quit is called exactly once
\* before control leaves get_mix_videos, on the normal return and on every
\* exception raised inside the try; it is never called twice, and never
\* without a session.
C3_ReleasedOnce ==
    /\ quits <= 1
    /\ driver = "none" => quits = 0
    /\ driver = "open" => InScrape /\ quits = 0
    /\ (driver # "none" /\ ~InScrape) => quits = 1 /\ driver = "quit"
    /\ got_list => quits = 1

C3_Witness ==
    /\ pc = "raised"
    /\ exc \in {"browser", "sink"}
    /\ rounds >= 1
    /\ quits = 1

\* C4: the integer download_mix returns is the number of items whose
\* download_video call returned True, wherever the failures stand, and the
\* final summary notification carries that same number.
C4_Tally ==
    /\ successful_downloads = CountOk(outcomes)
    /\ pc = "done" =>
          /\ returned = CountOk(outcomes)
          /\ Len(outcomes) = Len(mix_video_urls)
          /\ progress_callback =>
                /\ log[Len(log)] = Msg("Complete", returned, 0)
                /\ CountKind(log, {"Complete"}) = 1
    /\ pc # "done" => returned = -1 /\ CountKind(log, {"Complete"}) = 0

C4_Witness ==
    /\ pc = "done"
    /\ progress_callback
    /\ Len(outcomes) >= 2
    /\ ~outcomes[1].ok
    /\ outcomes[2].ok
    /\ returned = 1

\* C5: a failed item (the service raising, or returning no metadata) never
\* aborts the batch: the items are attempted in the order of the scraped list,
\* the batch that ends has attempted all of them, and the only exception that
\* leaves the batch is one the progress sink raised.
C5_Isolation ==
    /\ IsPrefix(attempted, mix_video_urls)
    /\ InBatch => Len(attempted) = (IF pc = "dl_video" THEN index - 1 ELSE index)
    /\ pc \in {"dl_for", "done"} => Len(outcomes) = Len(attempted)
    /\ pc = "done" => attempted = mix_video_urls
    /\ (pc = "raised" /\ got_list) => exc = "sink"

C5_Witness ==
    /\ pc = "done"
    /\ Len(outcomes) >= 2
    /\ outcomes[1].svc \in {"error", "none"}
    /\ outcomes[2].ok

\* C6: with a progress sink, every item gets exactly one start-of-item marker
\* and, before the next marker, exactly one completion or failure message, so
\* a finished batch of n items shows n markers and n completion-or-failure
\* messages.
C6_OneCompletionPerItem ==
    (progress_callback /\ InBatch) =>
        /\ CountKind(log, {"Marker"}) = index
        /\ CountKind(log, {"Success", "Error"}) = Len(outcomes)
        /\ pc = "done" =>
              CountKind(log, {"Success", "Error"}) = Len(mix_video_urls)

\* C7: when the browser session cannot be acquired the error leaves
\* get_mix_videos and download_mix: no list is returned, driver.quit is not
\* called, no download is attempted and no summary is notified.
C7_AcquireFailure ==
    exc = "acquire" =>
        /\ pc = "raised"
        /\ ~got_list
        /\ driver = "none"
        /\ quits = 0
        /\ attempted = <<>>
        /\ returned = -1
        /\ CountKind(log, {"Complete"}) = 0

C7_Witness ==
    /\ pc = "raised"
    /\ exc = "acquire"

\* C8: with N > 0 and no collaborator fault the scrape loop is left only with
\* at least N collected URLs: the call returns in every run in which the page
\* has shown N distinct normalized video URLs, and a call that has not
\* collected N has not returned.
C8_OnlyExitAtN ==
    /\ [](pc = "scraped" => Len(video_urls) >= num_videos)
    /\ [](got_list => Len(mix_video_urls) = num_videos)
    /\ [](pc = "finally" => Len(video_urls) >= num_videos)
    /\ (Cardinality(exposed) >= num_videos) ~> got_list

C8_Witness ==
    /\ pc = "scraped"
    /\ rounds >= 2
    /\ Cardinality(exposed) >= num_videos

\* C9: with a progress sink, "Loading playlist page..." is notified exactly
\* once, before navigating and before any "Found k videos..."; every finished
\* scroll round notifies exactly one "Found k videos..." with k the collected
\* count at the end of that round; no round starts after a round with k >= N.
C9_ScrapeNotifications ==
    (progress_callback /\ exc = "none" /\ (InScrape \/ pc = "scraped") /\ pc # "loading") =>
        /\ CountKind(log, {"Loading"}) = 1
        /\ log[2] = Msg("Loading", 0, 0)
        /\ Len(Founds) = (IF pc \in {"query", "for", "found"} THEN rounds - 1 ELSE rounds)
        /\ \A i \in 1..Len(Founds) :
              /\ i < Len(Founds) => Founds[i].a < num_videos
              /\ pc \in {"scroll", "query", "for", "found"} => Founds[i].a < num_videos
        /\ pc \in {"break", "scraped"} =>
              /\ Len(Founds) >= 1
              /\ Founds[Len(Founds)].a = Len(video_urls)
        /\ pc = "scraped" =>
              /\ Founds[Len(Founds)].a >= num_videos
              /\ Len(mix_video_urls) = num_videos

C9_Witness ==
    /\ progress_callback
    /\ pc = "scraped"
    /\ rounds = 2
    /\ Len(Founds) = 2
    /\ Len(video_urls) > num_videos
    /\ Len(mix_video_urls) = num_videos

\* C10: while scraping, the collected list changes only by appending: after
\* every step, the re-deduplication included, the old list is a prefix of the
\* new one; the list handed to download_mix is set by the final return alone.
C10_GrowsByAppending ==
    [][/\ pc # "scraped" => IsPrefix(video_urls, video_urls')
       /\ pc # "finally" => mix_video_urls' = mix_video_urls
       /\ pc = "for" /\ items = <<>> => video_urls' = video_urls]_vars

C10_Witness ==
    /\ pc = "found"
    /\ rounds >= 2
    /\ Len(video_urls) >= 2
    /\ Len(video_urls) > num_videos

====
